---------------------------- MODULE Spec2Model ----------------------------
(***************************************************************************)
(* STRling.js, module simply/static.js: the named-class factories          *)
(* (alphaNum .. end) and the six lookaround builders (ahead .. hasNot),    *)
(* over the Pattern abstraction ("Fragment") of simply/pattern.js.         *)
(*                                                                         *)
(* A Pattern is a value; regex source text is a string.  The module keeps  *)
(* the session of a caller: the Pattern it holds (cur), and the record of  *)
(* the call made last (last).                                              *)
(***************************************************************************)
EXTENDS Integers, Sequences, FiniteSets, TLC

VARIABLES cur, curOp, depth, last

vars == <<cur, curOp, depth, last>>

(***************************************************************************)
(* Bounds of the model.                                                    *)
(***************************************************************************)
MaxRep == 2
MaxStrLen == 1
MaxDepth == 1

(***************************************************************************)
(* JavaScript values that reach the operations.                            *)
(***************************************************************************)
Undefined == [type |-> "undefined"]
Null == [type |-> "null"]
PlainObject == [type |-> "object"]
Num(n) == [type |-> "number", num |-> n]
Str(s) == [type |-> "string", chars |-> s]

IsString(v) == v.type = "string"
IsPattern(v) == v.type = "Pattern"
IsGiven(v) == v.type = "number"

(***************************************************************************)
(* pattern.js: the Pattern class, lit, and the error it throws.            *)
(***************************************************************************)
Pattern(text, isAtomic, isNegatedClass, isComposite) ==
    [type |-> "Pattern", text |-> text, isAtomic |-> isAtomic,
     isNegatedClass |-> isNegatedClass, isComposite |-> isComposite]

\* A Pattern interpolated into a template string renders its text.
ToText(p) == p.text

\* The outcome of a call: the Pattern returned, or the kind of the
\* STRlingError thrown (InvalidArgument for an argument of a wrong type,
\* InvalidQuantifier for a repetition that cannot be applied) and no
\* Pattern.  self is the Pattern the quantifier was called on, if any.
Returned(p) == [status |-> "ok", out |-> p, self |-> Undefined]
Thrown(kind) == [status |-> kind, out |-> Undefined, self |-> Undefined]

MetaChars == {".", "*", "+", "?", "(", ")", "[", "]", "{", "}", "^", "$", "|", "\\"}

RECURSIVE escapeLiteral(_)
escapeLiteral(s) ==
    IF s = "" THEN ""
    ELSE (IF Head(s) \in MetaChars THEN "\\" \o Head(s) ELSE Head(s))
         \o escapeLiteral(Tail(s))

lit(s) == Pattern(escapeLiteral(s), Len(escapeLiteral(s)) = 1, FALSE, FALSE)

DigitChar(d) == SubSeq("0123456789", d + 1, d + 1)

RECURSIVE ToDecimal(_)
ToDecimal(n) ==
    IF n < 10 THEN DigitChar(n) ELSE ToDecimal(n \div 10) \o DigitChar(n % 10)

\* The repetition suffix of a valid request.
repeat(minRep, maxRep) ==
    IF IsGiven(maxRep)
    THEN "{" \o ToDecimal(minRep.num) \o "," \o ToDecimal(maxRep.num) \o "}"
    ELSE "{" \o ToDecimal(minRep.num) \o "}"

InvalidRange(minRep, maxRep) ==
    \/ ~IsGiven(minRep)
    \/ minRep.num < 0
    \/ IsGiven(maxRep) /\ maxRep.num < 0
    \/ IsGiven(maxRep) /\ minRep.num > maxRep.num
    \/ IsGiven(maxRep) /\ minRep.num = 0 /\ maxRep.num = 0
    \/ ~IsGiven(maxRep) /\ minRep.num = 0

\* Pattern.prototype.call, the quantifier: no count given hands self back;
\* a composite self, a negative count, min > max, (0, 0), a lone min of 0
\* or a max without a min throws; otherwise the text, grouped unless self
\* is atomic, gets the suffix, and the result carries no flag.
call(self, minRep, maxRep) ==
    IF ~IsGiven(minRep) /\ ~IsGiven(maxRep)
    THEN [Returned(self) EXCEPT !.self = self]
    ELSE IF self.isComposite \/ InvalidRange(minRep, maxRep)
    THEN [Thrown("InvalidQuantifier") EXCEPT !.self = self]
    ELSE [Returned(Pattern((IF self.isAtomic THEN self.text
                            ELSE "(?:" \o self.text \o ")")
                           \o repeat(minRep, maxRep),
                           FALSE, FALSE, FALSE))
          EXCEPT !.self = self]

RECURSIVE ConcatText(_)
ConcatText(fs) ==
    IF fs = <<>> THEN "" ELSE ToText(Head(fs)) \o ConcatText(Tail(fs))

\* merge marking its result composite whenever an argument is, a single
\* argument included.
merge_anyComposite(fs) ==
    IF Len(fs) = 0 THEN Thrown("InvalidArgument")
    ELSE Returned(Pattern(ConcatText(fs), FALSE, FALSE,
                          \E i \in 1..Len(fs) : fs[i].isComposite))

merge(fs) ==
    IF Len(fs) = 0 THEN Thrown("InvalidArgument")
    ELSE Returned(Pattern(ConcatText(fs), FALSE, FALSE,
                          Len(fs) > 1 /\ \E i \in 1..Len(fs) : fs[i].isComposite))

(***************************************************************************)
(* static.js, lines 10-262: the named-class factories.                     *)
(***************************************************************************)
\* alphaNum forwarding its two counts in the wrong order.
alphaNum_swapped(minRep, maxRep) ==
    call(Pattern("[A-Za-z0-9]", TRUE, FALSE, FALSE), maxRep, minRep)

alphaNum(minRep, maxRep) ==
    call(Pattern("[A-Za-z0-9]", TRUE, FALSE, FALSE), minRep, maxRep)

notAlphaNum(minRep, maxRep) ==
    call(Pattern("[^A-Za-z0-9]", TRUE, TRUE, FALSE), minRep, maxRep)

\* The grave accent, taken from a two-character string.
BackTick == SubSeq("`'", 1, 1)

\* !"#$%&'()*+,-./:;<=>?@[\]^_ then the grave accent then {|}~
SpecialChars == "!\"#$%&'()*+,-./:;<=>?@[\\]^_" \o BackTick \o "{|}~"

specialChar(minRep, maxRep) ==
    LET special == lit(SpecialChars)
    IN  call(Pattern("[" \o ToText(special) \o "]", TRUE, FALSE, FALSE),
             minRep, maxRep)

notSpecialChar(minRep, maxRep) ==
    LET special == lit(SpecialChars)
    IN  call(Pattern("[^" \o ToText(special) \o "]", TRUE, TRUE, FALSE),
             minRep, maxRep)

\* letter built as hexDigit is, without the flag that marks it atomic.
letter_noFlag(minRep, maxRep) ==
    call(Pattern("[A-Za-z]", FALSE, FALSE, FALSE), minRep, maxRep)

letter(minRep, maxRep) ==
    call(Pattern("[A-Za-z]", TRUE, FALSE, FALSE), minRep, maxRep)

notLetter(minRep, maxRep) ==
    call(Pattern("[^A-Za-z]", TRUE, TRUE, FALSE), minRep, maxRep)

upper(minRep, maxRep) ==
    call(Pattern("[A-Z]", TRUE, FALSE, FALSE), minRep, maxRep)

notUpper(minRep, maxRep) ==
    call(Pattern("[^A-Z]", TRUE, TRUE, FALSE), minRep, maxRep)

lower(minRep, maxRep) ==
    call(Pattern("[a-z]", TRUE, FALSE, FALSE), minRep, maxRep)

notLower(minRep, maxRep) ==
    call(Pattern("[^a-z]", TRUE, TRUE, FALSE), minRep, maxRep)

digit(minRep, maxRep) ==
    call(Pattern("\\d", FALSE, FALSE, FALSE), minRep, maxRep)

notDigit(minRep, maxRep) ==
    call(Pattern("\\D", FALSE, FALSE, FALSE), minRep, maxRep)

hexDigit(minRep, maxRep) ==
    call(Pattern("[A-Fa-f\\d]", FALSE, FALSE, FALSE), minRep, maxRep)

notHexDigit(minRep, maxRep) ==
    call(Pattern("[^A-Fa-f\\d]", FALSE, FALSE, FALSE), minRep, maxRep)

whitespace(minRep, maxRep) ==
    call(Pattern("\\s", FALSE, FALSE, FALSE), minRep, maxRep)

notWhitespace(minRep, maxRep) ==
    call(Pattern("\\S", FALSE, FALSE, FALSE), minRep, maxRep)

newline(minRep, maxRep) ==
    call(Pattern("\\n", FALSE, FALSE, FALSE), minRep, maxRep)

notNewline(minRep, maxRep) ==
    call(Pattern(".", FALSE, FALSE, FALSE), minRep, maxRep)

tab(minRep, maxRep) ==
    call(Pattern("\\t", FALSE, FALSE, FALSE), minRep, maxRep)

notTab(minRep, maxRep) ==
    call(Pattern("\\T", FALSE, FALSE, FALSE), minRep, maxRep)

carriage(minRep, maxRep) ==
    call(Pattern("\\r", FALSE, FALSE, FALSE), minRep, maxRep)

notCarriage(minRep, maxRep) ==
    call(Pattern(".", FALSE, FALSE, FALSE), minRep, maxRep)

bound(minRep, maxRep) ==
    call(Pattern("\\b", FALSE, FALSE, FALSE), minRep, maxRep)

notBound(minRep, maxRep) ==
    call(Pattern("\\B", FALSE, FALSE, FALSE), minRep, maxRep)

start == Returned(Pattern("^", FALSE, FALSE, FALSE))

end == Returned(Pattern("$", FALSE, FALSE, FALSE))

(***************************************************************************)
(* static.js, lines 303-455: the lookaround builders.                      *)
(***************************************************************************)
\* if (typeof pattern === "string") pattern = lit(pattern);
Coerce(pattern) == IF IsString(pattern) THEN lit(pattern.chars) ELSE pattern

\* ahead interpolating a string as it is, without lit.
ahead_unescaped(pattern) ==
    IF IsString(pattern)
    THEN Returned(Pattern("(?=" \o pattern.chars \o ")", FALSE, FALSE, TRUE))
    ELSE IF ~IsPattern(pattern) THEN Thrown("InvalidArgument")
    ELSE Returned(Pattern("(?=" \o ToText(pattern) \o ")", FALSE, FALSE, TRUE))

ahead(pattern) ==
    LET p == Coerce(pattern)
    IN  IF ~IsPattern(p) THEN Thrown("InvalidArgument")
        ELSE Returned(Pattern("(?=" \o ToText(p) \o ")", FALSE, FALSE, TRUE))

\* notAhead rendering the positive assertion of ahead.
notAhead_positive(pattern) ==
    LET p == Coerce(pattern)
    IN  IF ~IsPattern(p) THEN Thrown("InvalidArgument")
        ELSE Returned(Pattern("(?=" \o ToText(p) \o ")", FALSE, FALSE, TRUE))

notAhead(pattern) ==
    LET p == Coerce(pattern)
    IN  IF ~IsPattern(p) THEN Thrown("InvalidArgument")
        ELSE Returned(Pattern("(?!" \o ToText(p) \o ")", FALSE, FALSE, TRUE))

\* behind handing the flags of its input on to its result.
behind_inheritFlags(pattern) ==
    LET p == Coerce(pattern)
    IN  IF ~IsPattern(p) THEN Thrown("InvalidArgument")
        ELSE Returned(Pattern("(?<=" \o ToText(p) \o ")",
                              p.isAtomic, p.isNegatedClass, TRUE))

behind(pattern) ==
    LET p == Coerce(pattern)
    IN  IF ~IsPattern(p) THEN Thrown("InvalidArgument")
        ELSE Returned(Pattern("(?<=" \o ToText(p) \o ")", FALSE, FALSE, TRUE))

\* notBehind leaving its result unmarked as composite.
notBehind_plain(pattern) ==
    LET p == Coerce(pattern)
    IN  IF ~IsPattern(p) THEN Thrown("InvalidArgument")
        ELSE Returned(Pattern("(?<!" \o ToText(p) \o ")", FALSE, FALSE, FALSE))

notBehind(pattern) ==
    LET p == Coerce(pattern)
    IN  IF ~IsPattern(p) THEN Thrown("InvalidArgument")
        ELSE Returned(Pattern("(?<!" \o ToText(p) \o ")", FALSE, FALSE, TRUE))

has(pattern) ==
    LET p == Coerce(pattern)
    IN  IF ~IsPattern(p) THEN Thrown("InvalidArgument")
        ELSE Returned(Pattern("(?=.*" \o ToText(p) \o ")", FALSE, FALSE, TRUE))

\* What a template string renders a value that is no Pattern as.
JsString(v) ==
    CASE v.type = "number" -> ToDecimal(v.num)
      [] v.type = "null" -> "null"
      [] v.type = "undefined" -> "undefined"
      [] OTHER -> "[object Object]"

\* hasNot without the instanceof check: whatever it is given is rendered.
hasNot_unchecked(pattern) ==
    LET p == Coerce(pattern)
    IN  Returned(Pattern("(?!.*" \o (IF IsPattern(p) THEN ToText(p)
                                     ELSE JsString(p)) \o ")",
                         FALSE, FALSE, TRUE))

hasNot(pattern) ==
    LET p == Coerce(pattern)
    IN  IF ~IsPattern(p) THEN Thrown("InvalidArgument")
        ELSE Returned(Pattern("(?!.*" \o ToText(p) \o ")", FALSE, FALSE, TRUE))

(***************************************************************************)
(* The regular-expression engine the rendered text is compiled by: the     *)
(* part of ECMAScript pattern semantics the rendered texts use (literal    *)
(* characters, escapes, the dot, bracketed classes with ranges, groups,    *)
(* lookahead and lookbehind assertions, the anchors, and the quantifiers   *)
(* *, +, ? and {m}, {m,}, {m,n}).  MatchSeq gives every position a match   *)
(* of re[i..e) can end at, which decides whether a match exists whatever   *)
(* order a backtracking engine tries them in.                              *)
(***************************************************************************)
At(s, i) == SubSeq(s, i, i)

Printable ==
    " !\"#$%&'()*+,-./0123456789:;<=>?@ABCDEFGHIJKLMNOPQRSTUVWXYZ[\\]^_"
    \o BackTick \o "abcdefghijklmnopqrstuvwxyz{|}~"

\* Every character a subject string is made of here: ASCII 32..126 and
\* the tab, the line feed and the carriage return.
Chars == {At(Printable, i) : i \in 1..Len(Printable)} \cup {"\t", "\n", "\r"}

CharCode(c) ==
    IF c = "\t" THEN 9
    ELSE IF c = "\n" THEN 10
    ELSE IF c = "\r" THEN 13
    ELSE 31 + (CHOOSE i \in 1..Len(Printable) : At(Printable, i) = c)

DigitChars == {DigitChar(d) : d \in 0..9}
WordChars ==
    {c \in Chars : \/ CharCode(c) \in CharCode("a")..CharCode("z")
                   \/ CharCode(c) \in CharCode("A")..CharCode("Z")
                   \/ c \in DigitChars
                   \/ c = "_"}
SpaceChars == {" ", "\t", "\n", "\r"}
LineTerminators == {"\n", "\r"}

\* Whether the escape \x, outside a class, consumes the character c.  \b
\* and \B are assertions there: they consume no character.
EscapeMatches(x, c) ==
    CASE x = "b" -> FALSE
      [] x = "B" -> FALSE
      [] x = "d" -> c \in DigitChars
      [] x = "D" -> c \notin DigitChars
      [] x = "w" -> c \in WordChars
      [] x = "W" -> c \notin WordChars
      [] x = "s" -> c \in SpaceChars
      [] x = "S" -> c \notin SpaceChars
      [] x = "n" -> c = "\n"
      [] x = "t" -> c = "\t"
      [] x = "r" -> c = "\r"
      [] OTHER -> c = x

\* Whether the escape \x, inside a class, matches c: there \b is the
\* backspace, which is none of Chars, and \B is the letter B.
ClassEscapeMatches(x, c) ==
    CASE x = "b" -> FALSE
      [] x = "B" -> c = "B"
      [] OTHER -> EscapeMatches(x, c)

\* Whether position p of s is a word boundary: exactly one of the
\* characters before and at p is a word character.
IsWordAt(s, q) == q \in 1..Len(s) /\ At(s, q) \in WordChars
IsWordBoundary(s, p) == IsWordAt(s, p - 1) # IsWordAt(s, p)

IsClassEscape(x) == x \in {"d", "D", "w", "W", "s", "S"}

\* The one character the escape \x stands for, when it is not a class.
EscapeChar(x) ==
    CASE x = "n" -> "\n"
      [] x = "t" -> "\t"
      [] x = "r" -> "\r"
      [] OTHER -> x

\* The index of the ] that closes the class whose body starts at j.
RECURSIVE ScanClass(_, _)
ScanClass(re, j) ==
    IF j > Len(re) THEN j
    ELSE IF At(re, j) = "\\" THEN ScanClass(re, j + 2)
    ELSE IF At(re, j) = "]" THEN j
    ELSE ScanClass(re, j + 1)

ClassClose(re, i) == ScanClass(re, i + 1)

\* The index of the ) that closes the group whose body starts at j.
RECURSIVE ScanGroup(_, _, _)
ScanGroup(re, j, d) ==
    IF j > Len(re) THEN j
    ELSE IF At(re, j) = "\\" THEN ScanGroup(re, j + 2, d)
    ELSE IF At(re, j) = "[" THEN ScanGroup(re, ClassClose(re, j) + 1, d)
    ELSE IF At(re, j) = "(" THEN ScanGroup(re, j + 1, d + 1)
    ELSE IF At(re, j) = ")"
    THEN (IF d = 0 THEN j ELSE ScanGroup(re, j + 1, d - 1))
    ELSE ScanGroup(re, j + 1, d)

GroupClose(re, i) == ScanGroup(re, i + 1, 0)

\* Whether c is matched by one of the items of the class body re[k..e).
RECURSIVE ClassMember(_, _, _, _)
ClassMember(re, k, e, c) ==
    IF k >= e THEN FALSE
    ELSE LET esc == At(re, k) = "\\"
             x == At(re, k + 1)
             n == IF esc THEN 2 ELSE 1
             single == ~(esc /\ IsClassEscape(x))
             lo == IF esc THEN EscapeChar(x) ELSE At(re, k)
             ranged == single /\ k + n + 1 < e /\ At(re, k + n) = "-"
             hesc == At(re, k + n + 1) = "\\"
             hi == IF hesc THEN EscapeChar(At(re, k + n + 2))
                   ELSE At(re, k + n + 1)
             hn == IF hesc THEN 2 ELSE 1
         IN  IF ranged
             THEN \/ CharCode(c) \in CharCode(lo)..CharCode(hi)
                  \/ ClassMember(re, k + n + 1 + hn, e, c)
             ELSE \/ (IF esc THEN ClassEscapeMatches(x, c) ELSE c = lo)
                  \/ ClassMember(re, k + n, e, c)

\* Whether the class re[i..close] matches c.
ClassMatches(re, i, close, c) ==
    IF At(re, i + 1) = "^"
    THEN ~ClassMember(re, i + 2, close, c)
    ELSE ClassMember(re, i + 1, close, c)

\* The index just past the atom that starts at i.
AtomEnd(re, i) ==
    IF At(re, i) = "\\" THEN i + 2
    ELSE IF At(re, i) = "[" THEN ClassClose(re, i) + 1
    ELSE IF At(re, i) = "(" THEN GroupClose(re, i) + 1
    ELSE i + 1

RECURSIVE ParseNat(_, _, _, _)
ParseNat(re, i, e, acc) ==
    IF i >= e THEN acc
    ELSE ParseNat(re, i + 1, e,
                  10 * acc + (CHOOSE d \in 0..9 : DigitChar(d) = At(re, i)))

RECURSIVE FindChar(_, _, _, _)
FindChar(re, i, e, c) ==
    IF i >= e THEN e
    ELSE IF At(re, i) = c THEN i
    ELSE FindChar(re, i + 1, e, c)

\* The quantifier at a, if any: least and greatest count (-1: no limit)
\* and the index just past it.
QuantAt(re, a, e) ==
    IF a >= e THEN [min |-> 1, max |-> 1, next |-> a]
    ELSE IF At(re, a) = "*" THEN [min |-> 0, max |-> -1, next |-> a + 1]
    ELSE IF At(re, a) = "+" THEN [min |-> 1, max |-> -1, next |-> a + 1]
    ELSE IF At(re, a) = "?" THEN [min |-> 0, max |-> 1, next |-> a + 1]
    ELSE IF At(re, a) = "{"
    THEN LET b == FindChar(re, a + 1, e, "}")
             c == FindChar(re, a + 1, b, ",")
             lo == ParseNat(re, a + 1, c, 0)
         IN  [min |-> lo,
              max |-> IF c = b THEN lo
                      ELSE IF c + 1 = b THEN -1
                      ELSE ParseNat(re, c + 1, b, 0),
              next |-> b + 1]
    ELSE [min |-> 1, max |-> 1, next |-> a]

RECURSIVE MatchSeq(_, _, _, _, _)
RECURSIVE Step(_, _, _, _, _)
RECURSIVE Closure(_, _, _, _, _, _, _)
RECURSIVE Repeat(_, _, _, _, _, _, _)

\* The positions one match of the atom re[i..a) leads to from those of P.
Step(re, i, a, s, P) ==
    LET c == At(re, i)
        ends == Len(s) + 1
        Eat(ok(_)) == {p + 1 : p \in {q \in P : q < ends /\ ok(At(s, q))}}
        lit1(ch) == ch = c
        dot(ch) == ch \notin LineTerminators
        esc(ch) == EscapeMatches(At(re, i + 1), ch)
        cls(ch) == ClassMatches(re, i, a - 1, ch)
    IN  IF c = "(" /\ SubSeq(re, i, i + 2) = "(?:"
        THEN MatchSeq(re, i + 3, a - 1, s, P)
        ELSE IF c = "(" /\ SubSeq(re, i, i + 2) = "(?="
        THEN {p \in P : MatchSeq(re, i + 3, a - 1, s, {p}) # {}}
        ELSE IF c = "(" /\ SubSeq(re, i, i + 2) = "(?!"
        THEN {p \in P : MatchSeq(re, i + 3, a - 1, s, {p}) = {}}
        ELSE IF c = "(" /\ SubSeq(re, i, i + 3) = "(?<="
        THEN {p \in P : \E b \in 1..p : p \in MatchSeq(re, i + 4, a - 1, s, {b})}
        ELSE IF c = "(" /\ SubSeq(re, i, i + 3) = "(?<!"
        THEN {p \in P : \A b \in 1..p : p \notin MatchSeq(re, i + 4, a - 1, s, {b})}
        ELSE IF c = "(" THEN MatchSeq(re, i + 1, a - 1, s, P)
        ELSE IF c = "[" THEN Eat(cls)
        ELSE IF c = "\\" /\ At(re, i + 1) = "b"
        THEN {p \in P : IsWordBoundary(s, p)}
        ELSE IF c = "\\" /\ At(re, i + 1) = "B"
        THEN {p \in P : ~IsWordBoundary(s, p)}
        ELSE IF c = "\\" THEN Eat(esc)
        ELSE IF c = "." THEN Eat(dot)
        ELSE IF c = "^" THEN P \cap {1}
        ELSE IF c = "$" THEN P \cap {ends}
        ELSE Eat(lit1)

\* Zero to max further matches of the atom (max < 0: no limit).
Closure(re, i, a, s, F, Acc, max) ==
    IF F = {} \/ max = 0 THEN Acc
    ELSE LET N == Step(re, i, a, s, F) \ Acc
         IN  Closure(re, i, a, s, N, Acc \cup N, max - 1)

\* min to max matches of the atom.
Repeat(re, i, a, s, P, min, max) ==
    IF min > 0
    THEN Repeat(re, i, a, s, Step(re, i, a, s, P), min - 1,
                IF max < 0 THEN max ELSE max - 1)
    ELSE Closure(re, i, a, s, P, P, max)

\* The positions a match of re[i..e) can end at, started at one of P.
MatchSeq(re, i, e, s, P) ==
    IF i >= e \/ P = {} THEN P
    ELSE LET a == AtomEnd(re, i)
             q == QuantAt(re, a, e)
         IN  MatchSeq(re, q.next, e, s,
                      Repeat(re, i, a, s, P, q.min, q.max))

\* new RegExp(re).test(s): a match starting anywhere in s.
Test(re, s) ==
    \E b \in 1..(Len(s) + 1) : MatchSeq(re, 1, Len(re) + 1, s, {b}) # {}

\* A match of the whole of s: new RegExp("^(?:" + re + ")$").test(s).
FullMatch(re, s) == Test("^(?:" \o re \o ")$", s)

(***************************************************************************)
(* The inputs a caller can pass.                                           *)
(***************************************************************************)
RepVals == {Undefined} \cup {Num(n) : n \in -1..MaxRep}

Alphabet == {"a", "$", "\\"}

RECURSIVE StringsOfLen(_)
StringsOfLen(n) ==
    IF n = 0 THEN {""}
    ELSE {c \o s : c \in Alphabet, s \in StringsOfLen(n - 1)}

Strings == UNION {StringsOfLen(n) : n \in 0..MaxStrLen}

\* Arguments that are neither a string nor a Pattern.
Invalids == {Num(7), Null, Undefined, PlainObject}

\* What a caller can hand to a lookaround builder: before it holds a
\* Pattern, a string or a value of a wrong type; once it holds one, that
\* Pattern or a value of a wrong type.
LookInputs ==
    IF cur = Undefined THEN {Str(s) : s \in Strings} \cup Invalids
    ELSE IF depth < MaxDepth THEN {cur} \cup Invalids
    ELSE {}

\* Other Patterns a caller composes with: (?:\d){2,4} and (?![A-Za-z]).
digits24 == digit(Num(2), Num(4)).out
notBeforeLetter == notAhead(letter(Undefined, Undefined).out).out

\* The argument lists a caller holding cur passes to merge.
MergeInputs ==
    IF cur = Undefined THEN {<<>>}
    ELSE IF depth < MaxDepth
    THEN {<<>>, <<cur>>, <<cur, digits24>>, <<cur, notBeforeLetter>>,
          <<cur, digits24, notBeforeLetter>>}
    ELSE {}

(***************************************************************************)
(* The session of a caller: one step per call.  It first makes a Pattern   *)
(* (a factory, lit, or a lookaround of a string), then composes the        *)
(* Pattern it holds.  A call that returns leaves its result in cur; a call *)
(* that throws leaves cur as it was.                                       *)
(***************************************************************************)
NoCall ==
    [op |-> "none", args |-> <<>>, self |-> Undefined, heldOp |-> "none",
     status |-> "ok", out |-> Undefined]

Init ==
    /\ cur = Undefined
    /\ curOp = "none"
    /\ depth = 0
    /\ last = NoCall

\* The caller's step: record the call, keep the result it returned.
\* heldOp names the call that made the Pattern the caller held and passed
\* ("none" when it passed none); cur() with no range hands that very Pattern
\* back, which stays known by the call that made it.
Made(op, args, r, heldOp, d) ==
    /\ last' = [op |-> op, args |-> args, self |-> r.self, heldOp |-> heldOp,
                status |-> r.status, out |-> r.out]
    /\ IF r.status = "ok"
       THEN /\ cur' = r.out
            /\ curOp' = IF op = "call" /\ r.out = r.self THEN heldOp ELSE op
            /\ depth' = d
       ELSE UNCHANGED <<cur, curOp, depth>>

AlphaNum ==
    /\ cur = Undefined
    /\ \E a \in RepVals, b \in RepVals :
          Made("alphaNum", <<a, b>>, alphaNum(a, b), "none", 0)
NotAlphaNum ==
    /\ cur = Undefined
    /\ \E a \in RepVals, b \in RepVals :
          Made("notAlphaNum", <<a, b>>, notAlphaNum(a, b), "none", 0)
SpecialChar ==
    /\ cur = Undefined
    /\ \E a \in RepVals, b \in RepVals :
          Made("specialChar", <<a, b>>, specialChar(a, b), "none", 0)
NotSpecialChar ==
    /\ cur = Undefined
    /\ \E a \in RepVals, b \in RepVals :
          Made("notSpecialChar", <<a, b>>, notSpecialChar(a, b), "none", 0)
Letter ==
    /\ cur = Undefined
    /\ \E a \in RepVals, b \in RepVals :
          Made("letter", <<a, b>>, letter(a, b), "none", 0)
NotLetter ==
    /\ cur = Undefined
    /\ \E a \in RepVals, b \in RepVals :
          Made("notLetter", <<a, b>>, notLetter(a, b), "none", 0)
Upper ==
    /\ cur = Undefined
    /\ \E a \in RepVals, b \in RepVals :
          Made("upper", <<a, b>>, upper(a, b), "none", 0)
NotUpper ==
    /\ cur = Undefined
    /\ \E a \in RepVals, b \in RepVals :
          Made("notUpper", <<a, b>>, notUpper(a, b), "none", 0)
Lower ==
    /\ cur = Undefined
    /\ \E a \in RepVals, b \in RepVals :
          Made("lower", <<a, b>>, lower(a, b), "none", 0)
NotLower ==
    /\ cur = Undefined
    /\ \E a \in RepVals, b \in RepVals :
          Made("notLower", <<a, b>>, notLower(a, b), "none", 0)
Digit ==
    /\ cur = Undefined
    /\ \E a \in RepVals, b \in RepVals :
          Made("digit", <<a, b>>, digit(a, b), "none", 0)
NotDigit ==
    /\ cur = Undefined
    /\ \E a \in RepVals, b \in RepVals :
          Made("notDigit", <<a, b>>, notDigit(a, b), "none", 0)
HexDigit ==
    /\ cur = Undefined
    /\ \E a \in RepVals, b \in RepVals :
          Made("hexDigit", <<a, b>>, hexDigit(a, b), "none", 0)
NotHexDigit ==
    /\ cur = Undefined
    /\ \E a \in RepVals, b \in RepVals :
          Made("notHexDigit", <<a, b>>, notHexDigit(a, b), "none", 0)
Whitespace ==
    /\ cur = Undefined
    /\ \E a \in RepVals, b \in RepVals :
          Made("whitespace", <<a, b>>, whitespace(a, b), "none", 0)
NotWhitespace ==
    /\ cur = Undefined
    /\ \E a \in RepVals, b \in RepVals :
          Made("notWhitespace", <<a, b>>, notWhitespace(a, b), "none", 0)
Newline ==
    /\ cur = Undefined
    /\ \E a \in RepVals, b \in RepVals :
          Made("newline", <<a, b>>, newline(a, b), "none", 0)
NotNewline ==
    /\ cur = Undefined
    /\ \E a \in RepVals, b \in RepVals :
          Made("notNewline", <<a, b>>, notNewline(a, b), "none", 0)
Tab ==
    /\ cur = Undefined
    /\ \E a \in RepVals, b \in RepVals :
          Made("tab", <<a, b>>, tab(a, b), "none", 0)
NotTab ==
    /\ cur = Undefined
    /\ \E a \in RepVals, b \in RepVals :
          Made("notTab", <<a, b>>, notTab(a, b), "none", 0)
Carriage ==
    /\ cur = Undefined
    /\ \E a \in RepVals, b \in RepVals :
          Made("carriage", <<a, b>>, carriage(a, b), "none", 0)
NotCarriage ==
    /\ cur = Undefined
    /\ \E a \in RepVals, b \in RepVals :
          Made("notCarriage", <<a, b>>, notCarriage(a, b), "none", 0)
Bound ==
    /\ cur = Undefined
    /\ \E a \in RepVals, b \in RepVals :
          Made("bound", <<a, b>>, bound(a, b), "none", 0)
NotBound ==
    /\ cur = Undefined
    /\ \E a \in RepVals, b \in RepVals :
          Made("notBound", <<a, b>>, notBound(a, b), "none", 0)
Start ==
    /\ cur = Undefined
    /\ Made("start", <<>>, start, "none", 0)
End ==
    /\ cur = Undefined
    /\ Made("end", <<>>, end, "none", 0)

\* A lookaround of a string starts afresh; one of cur nests one deeper.
DepthAfter(x) == IF IsPattern(x) THEN depth + 1 ELSE 0
ArgOp(x) == IF IsPattern(x) THEN curOp ELSE "none"

Ahead ==
    \E x \in LookInputs : Made("ahead", <<x>>, ahead(x), ArgOp(x), DepthAfter(x))
NotAhead ==
    \E x \in LookInputs : Made("notAhead", <<x>>, notAhead(x), ArgOp(x), DepthAfter(x))
Behind ==
    \E x \in LookInputs : Made("behind", <<x>>, behind(x), ArgOp(x), DepthAfter(x))
NotBehind ==
    \E x \in LookInputs : Made("notBehind", <<x>>, notBehind(x), ArgOp(x), DepthAfter(x))
Has ==
    \E x \in LookInputs : Made("has", <<x>>, has(x), ArgOp(x), DepthAfter(x))
HasNot ==
    \E x \in LookInputs : Made("hasNot", <<x>>, hasNot(x), ArgOp(x), DepthAfter(x))

Lit ==
    /\ cur = Undefined
    /\ \E s \in Strings : Made("lit", <<Str(s)>>, Returned(lit(s)), "none", 0)

\* cur(minRep, maxRep): the quantifier applied to the Pattern held.
Quantify ==
    /\ IsPattern(cur)
    /\ depth < MaxDepth
    /\ \E a \in RepVals, b \in RepVals :
          Made("call", <<a, b>>, call(cur, a, b), curOp, depth + 1)

Merge ==
    \E fs \in MergeInputs :
       Made("merge", fs, merge(fs), IF fs = <<>> THEN "none" ELSE curOp, depth + 1)

Next ==
    \/ AlphaNum \/ NotAlphaNum \/ SpecialChar \/ NotSpecialChar
    \/ Letter \/ NotLetter \/ Upper \/ NotUpper \/ Lower \/ NotLower
    \/ Digit \/ NotDigit \/ HexDigit \/ NotHexDigit
    \/ Whitespace \/ NotWhitespace \/ Newline \/ NotNewline
    \/ Tab \/ NotTab \/ Carriage \/ NotCarriage \/ Bound \/ NotBound
    \/ Start \/ End
    \/ Ahead \/ NotAhead \/ Behind \/ NotBehind \/ Has \/ HasNot
    \/ Lit \/ Quantify \/ Merge

Spec == Init /\ [][Next]_vars

(***************************************************************************)
(* Vocabulary of the properties.                                           *)
(***************************************************************************)
LookaroundOps == {"ahead", "notAhead", "behind", "notBehind", "has", "hasNot"}

QuantifiedFactories ==
    {"alphaNum", "notAlphaNum", "specialChar", "notSpecialChar", "letter",
     "notLetter", "upper", "notUpper", "lower", "notLower", "digit",
     "notDigit", "hexDigit", "notHexDigit", "whitespace", "notWhitespace",
     "newline", "notNewline", "tab", "notTab", "carriage", "notCarriage",
     "bound", "notBound"}

\* The calls that reach the quantifier: a factory, or cur(minRep, maxRep).
QuantifierCalls == QuantifiedFactories \cup {"call"}

\* The rendered form each lookaround is documented to open with.
PrefixOf(op) ==
    CASE op = "ahead" -> "(?="
      [] op = "notAhead" -> "(?!"
      [] op = "behind" -> "(?<="
      [] op = "notBehind" -> "(?<!"
      [] op = "has" -> "(?=.*"
      [] op = "hasNot" -> "(?!.*"

Lookaround(op, x) ==
    CASE op = "ahead" -> ahead(x)
      [] op = "notAhead" -> notAhead(x)
      [] op = "behind" -> behind(x)
      [] op = "notBehind" -> notBehind(x)
      [] op = "has" -> has(x)
      [] op = "hasNot" -> hasNot(x)

ValidLookArg(x) == IsString(x) \/ IsPattern(x)

LastIsLookaround == last.op \in LookaroundOps

\* C1: a lookaround of a valid input x renders PREFIX + T + ")", T being
\* x.text as it is for a Pattern and the text of lit(x) for a string, so
\* that op(s) and op(lit(s)) render the same text.
C1_LookaroundText ==
    (LastIsLookaround /\ ValidLookArg(last.args[1])) =>
        LET x == last.args[1]
            T == IF IsPattern(x) THEN x.text ELSE escapeLiteral(x.chars)
        IN  /\ last.status = "ok"
            /\ last.out.text = PrefixOf(last.op) \o T \o ")"
            /\ IsString(x) =>
                 Lookaround(last.op, lit(x.chars)).out.text = last.out.text

C1_Witness ==
    /\ last.op = "ahead"
    /\ last.args = <<Str("$")>>
    /\ last.status = "ok"
    /\ last.out.text = "(?=\\$)"

\* C2: a lookaround of an argument that is neither a string nor a Pattern
\* throws InvalidArgument from that very call, returns no Pattern and
\* leaves the Pattern the caller holds as it was.
C2_InvalidArgumentThrows ==
    [][(last'.op \in LookaroundOps /\ ~ValidLookArg(last'.args[1])) =>
          /\ last'.status = "InvalidArgument"
          /\ last'.out = Undefined
          /\ cur' = cur]_vars

C2_Witness ==
    /\ last.op = "hasNot"
    /\ last.args = <<PlainObject>>
    /\ last.status = "InvalidArgument"
    /\ last.out = Undefined
    /\ IsPattern(cur)

\* C3: every Pattern a lookaround returns is composite, not atomic and not
\* a negated class, whatever the flags of its input.
C3_LookaroundFlags ==
    (LastIsLookaround /\ last.status = "ok") =>
        /\ last.out.isComposite
        /\ ~last.out.isAtomic
        /\ ~last.out.isNegatedClass

C3_Witness ==
    /\ LastIsLookaround
    /\ last.status = "ok"
    /\ IsPattern(last.args[1])
    /\ last.args[1].isAtomic
    /\ last.args[1].isNegatedClass
    /\ last.out.isComposite

\* Both counts given, 0 <= min <= max, not both zero.
ValidPair(a, b) ==
    /\ IsGiven(a) /\ IsGiven(b)
    /\ 0 <= a.num /\ a.num <= b.num /\ b.num > 0

Braces(a, b) == "{" \o ToDecimal(a.num) \o "," \o ToDecimal(b.num) \o "}"

\* C4: quantifying a Pattern f that is not composite with a valid pair
\* renders f.text{min,max} when f is atomic and (?:f.text){min,max} when it
\* is not; letter is built from the atomic [A-Za-z] and digit from \d with
\* the default flags.
C4_QuantifiedText ==
    (/\ last.op \in QuantifierCalls
     /\ ~last.self.isComposite
     /\ ValidPair(last.args[1], last.args[2])) =>
        LET f == last.self
            suffix == Braces(last.args[1], last.args[2])
        IN  /\ last.status = "ok"
            /\ last.out.text = (IF f.isAtomic THEN f.text
                                ELSE "(?:" \o f.text \o ")") \o suffix
            /\ last.op = "letter" => last.out.text = "[A-Za-z]" \o suffix
            /\ last.op = "digit" => last.out.text = "(?:\\d)" \o suffix

C4_Witness ==
    /\ last.op = "digit"
    /\ last.args = <<Num(1), Num(2)>>
    /\ last.out.text = "(?:\\d){1,2}"

\* C5: quantifying a composite Pattern, and so any result of a lookaround,
\* with at least one count given throws InvalidQuantifier and returns no
\* Pattern.
C5_CompositeNotQuantified ==
    (/\ last.op = "call"
     /\ IsGiven(last.args[1]) \/ IsGiven(last.args[2])
     /\ last.self.isComposite \/ last.heldOp \in LookaroundOps) =>
        /\ last.status = "InvalidQuantifier"
        /\ last.out = Undefined
        /\ cur = last.self

C5_Witness ==
    /\ last.op = "call"
    /\ last.heldOp = "notBehind"
    /\ last.args = <<Num(1), Undefined>>
    /\ last.status = "InvalidQuantifier"

\* C6: the quantifier called with (0, 0) or with min > max throws
\* InvalidQuantifier and returns no Pattern, the calls the factories
\* forward included.
C6_BadRangeThrows ==
    (/\ last.op \in QuantifierCalls
     /\ IsGiven(last.args[1]) /\ IsGiven(last.args[2])
     /\ \/ last.args[1].num = 0 /\ last.args[2].num = 0
        \/ last.args[1].num > last.args[2].num) =>
        /\ last.status = "InvalidQuantifier"
        /\ last.out = Undefined

C6_Witness ==
    /\ last.op = "alphaNum"
    /\ last.args = <<Num(2), Num(1)>>
    /\ last.status = "InvalidQuantifier"

\* C7: merge of n >= 1 Patterns is composite exactly when n > 1 and one
\* of them is composite; merge of a single Pattern keeps its text and is
\* neither atomic nor composite.
C7_MergeComposite ==
    (last.op = "merge" /\ Len(last.args) >= 1) =>
        LET fs == last.args
        IN  /\ last.status = "ok"
            /\ last.out.isComposite <=>
                 (Len(fs) > 1 /\ \E i \in 1..Len(fs) : fs[i].isComposite)
            /\ Len(fs) = 1 =>
                 /\ last.out.text = fs[1].text
                 /\ ~last.out.isAtomic
                 /\ ~last.out.isComposite

C7_Witness ==
    /\ last.op = "merge"
    /\ Len(last.args) = 1
    /\ last.heldOp = "ahead"
    /\ last.args[1].isComposite
    /\ ~last.out.isComposite
    /\ last.out.text = last.args[1].text

\* The call merge(letter(), digit(2,4), notAhead(letter())).
LastIsScenario ==
    /\ last.op = "merge"
    /\ last.args = <<letter(Undefined, Undefined).out,
                     digit(Num(2), Num(4)).out,
                     notAhead(letter(Undefined, Undefined).out).out>>
    /\ last.status = "ok"

\* C8 as stated, the text searched for with RegExp.test: it finds a match
\* in a123 and b12 and none in a123x and a1.
C8_AsStated ==
    LastIsScenario =>
        /\ Test(last.out.text, "a123")
        /\ Test(last.out.text, "b12")
        /\ ~Test(last.out.text, "a123x")
        /\ ~Test(last.out.text, "a1")

\* C8 amended: the text matched against the whole input matches a123 and
\* b12 and neither a123x nor a1; searched for, it finds a12 in a123x.
C8_WholeInput ==
    LastIsScenario =>
        /\ FullMatch(last.out.text, "a123")
        /\ FullMatch(last.out.text, "b12")
        /\ ~FullMatch(last.out.text, "a123x")
        /\ ~FullMatch(last.out.text, "a1")
        /\ Test(last.out.text, "a123x")
        /\ ~Test(last.out.text, "a1")

C8_Witness ==
    /\ LastIsScenario
    /\ last.out.text = "[A-Za-z](?:\\d){2,4}(?![A-Za-z])"

NegatedFactories ==
    {"notAlphaNum", "notSpecialChar", "notLetter", "notUpper", "notLower",
     "notDigit", "notHexDigit", "notWhitespace", "notNewline", "notTab",
     "notCarriage"}

\* The Pattern of the positive counterpart of a negated factory.
PositiveOf(op) ==
    CASE op = "notAlphaNum" -> alphaNum(Undefined, Undefined).out
      [] op = "notSpecialChar" -> specialChar(Undefined, Undefined).out
      [] op = "notLetter" -> letter(Undefined, Undefined).out
      [] op = "notUpper" -> upper(Undefined, Undefined).out
      [] op = "notLower" -> lower(Undefined, Undefined).out
      [] op = "notDigit" -> digit(Undefined, Undefined).out
      [] op = "notHexDigit" -> hexDigit(Undefined, Undefined).out
      [] op = "notWhitespace" -> whitespace(Undefined, Undefined).out
      [] op = "notNewline" -> newline(Undefined, Undefined).out
      [] op = "notTab" -> tab(Undefined, Undefined).out
      [] op = "notCarriage" -> carriage(Undefined, Undefined).out

\* Whether the Pattern p, on its own, matches the one-character string ch.
MatchesChar(p, ch) == FullMatch(p.text, ch)

TrueNegation(op, p) ==
    \A ch \in Chars : MatchesChar(p, ch) <=> ~MatchesChar(PositiveOf(op), ch)

\* C9: the Pattern of every negated factory matches a character exactly
\* when the Pattern of its positive counterpart does not.
C9_TrueNegation ==
    (/\ last.op \in NegatedFactories
     /\ last.args = <<Undefined, Undefined>>
     /\ last.status = "ok") => TrueNegation(last.op, last.out)

\* Text that is one matchable unit: one character, one escape, or one
\* bracketed class.
IsSingleUnit(text) ==
    \/ Len(text) = 1
    \/ Len(text) = 2 /\ At(text, 1) = "\\"
    \/ At(text, 1) = "[" /\ ClassClose(text, 1) = Len(text)

IsNegatedClassText(text) ==
    /\ At(text, 1) = "[" /\ At(text, 2) = "^"
    /\ ClassClose(text, 1) = Len(text)

\* C10: the Pattern a factory builds before it is quantified is atomic
\* whenever its text is one matchable unit, is a negated class exactly
\* when its text is a negated bracketed class, and is never composite.
C10_FlagsAgreeWithText ==
    last.op \in QuantifiedFactories =>
        LET f == last.self
        IN  /\ IsSingleUnit(f.text) => f.isAtomic
            /\ f.isNegatedClass <=> IsNegatedClassText(f.text)
            /\ ~f.isComposite

=============================================================================
